---- MODULE Spec2Model ----
(***************************************************************************)
(* Model of cea/optimization_new/helpercalsses/optimization/connectivity.py *)
(* (classes Connection and ConnectivityVector): the genome of network       *)
(* connections, its canonicalisation and its genetic operators.             *)
(*                                                                          *)
(* A genome is the sequence of the network_connection values of its         *)
(* Connection objects, one per building of the domain, in domain order.     *)
(* Position p of the model (1..NumBuildings) is python index p - 1.         *)
(* Random draws (random.random, random.randint, random.choice) and the      *)
(* external collaborators are nondeterministic choices.                     *)
(***************************************************************************)
EXTENDS Integers, Sequences, FiniteSets, TLC

\* Number of buildings of the domain (len(Connection.possible_building_codes)).
NumBuildings == 3

\* domain.config.optimization_new.maximum_number_of_networks
MaxNetworks == 2

\* Most genomes in a population handed to select.
MaxPopulation == 2

\* Most solutions in the combined list of select.
MaxSolutions == 3

\* Most calls of mutate and mate counted in a run.
MaxCalls == 2

VARIABLES
    zero_demand_buildings,  \* Connection.zero_demand_buildings, as positions
    cv_1,                   \* values of the genome the calls are made on
    cv_2,                   \* values of the second genome of a crossover
    cluster_indexes,        \* ConnectivityVector._cluster_indexes (<<>> is None)
    op,                     \* the last call
    alg,                    \* algorithm.mutation / algorithm.crossover of the last call
    arg,                    \* the value (setitem) or the length of the list
                            \* (values) handed to the last assignment
    err,                    \* how the last call ended
    resets,                 \* genomes reset() was called on during the last call
    collapsed,              \* genomes whose values the connections setter
                            \* changed during the last call
    reset_run,              \* for the last (at most two) reset() calls in a row:
                            \* whether each changed the genome
    cluster_calls,          \* number of calls of Clustering(...).cluster() so far
    calls,                  \* number of calls of mutate and mate so far
    before,                 \* <<cv_1, cv_2>> as they were before the last
                            \* crossover or operator call (before the first
                            \* of two with the same draws)
    chosen,                 \* what select_values_with_probability kept in
                            \* that crossover
    again,                  \* whether that crossover repeated the draws of
                            \* the crossover before it
    modes,                  \* the two lists of prevailing connectivity
                            \* values ClusterAlignment computed
    redraws,                \* ClusterSwitch: for every outlier position,
                            \* <<times it was considered for a redraw,
                            \* times it was assigned a drawn value>>
    generated,              \* the Connections the last generate(method)
                            \* returned, as [building, network_connection]
    individuals_list,       \* select: the genomes of the population
    all_supsys_combinations,\* select: encoding[0] of every solution of the
                            \* combined list
    solution_fronts,        \* select: the front sortLogNondominated puts
                            \* each solution of the combined list in
    population_size,        \* select: the size asked for
    new_population,         \* select: the genomes returned
    selected                \* select: which objects of individuals_list they
                            \* are, as places in the list

vars == <<zero_demand_buildings, cv_1, cv_2, cluster_indexes, op, alg, arg, err,
          resets, collapsed, reset_run, cluster_calls, calls, before, chosen, again,
          modes, redraws, generated, individuals_list, all_supsys_combinations,
          solution_fronts, population_size, new_population, selected>>

----------------------------------------------------------------------------
(* Connection *)

Positions == 1..NumBuildings

\* possible_connections with the upper end left out: range(maximum_number_of_networks)
possible_connections_short == 0..(MaxNetworks - 1)

\* Connection.possible_connections = range(maximum_number_of_networks + 1)
possible_connections == 0..MaxNetworks

\* Values a caller may try to assign to one Connection.
ConnectionInputs == (0 - 1)..(MaxNetworks + 1)

\* Elements of the lists a caller may try to assign in bulk.
BulkInputs == 0..(MaxNetworks + 1)

\* The Connection setter without the check against possible_connections.
network_connection_setter_unchecked(old, p, zd, new_connection) ==
    IF p \in zd
    THEN [err |-> "none", value |-> 0]
    ELSE [err |-> "none", value |-> new_connection]

\* The Connection setter without the zero-demand override.
network_connection_setter_unpinned(old, p, zd, new_connection) ==
    IF new_connection # 0 /\ new_connection \notin possible_connections
    THEN [err |-> "InvalidValue", value |-> old]
    ELSE [err |-> "none", value |-> new_connection]

\* Connection.network_connection (setter) on the Connection of position p whose
\* stored value is old: the outcome and the stored value afterwards.
\* A falsy new_connection (0) skips both checks; the checks come before the
\* zero-demand override.
network_connection_setter(old, p, zd, new_connection) ==
    IF new_connection # 0 /\ new_connection \notin possible_connections
    THEN [err |-> "InvalidValue", value |-> old]
    ELSE IF p \in zd
         THEN [err |-> "none", value |-> 0]
         ELSE [err |-> "none", value |-> new_connection]

\* Connection.__init__(network_connection, building_code): the stored value
\* of a new Connection of position p (network_connection in the legal range).
Connection(network_connection, p, zd) ==
    network_connection_setter(0, p, zd, network_connection).value

----------------------------------------------------------------------------
(* ConnectivityVector: canonicalisation and assignment *)

\* list.count
Count(values, i) == Cardinality({p \in DOMAIN values : values[p] = i})

\* values_appearing_once looking at range(maximum_number_of_networks) only
values_appearing_once_below_max(new_values) ==
    {i \in 0..(MaxNetworks - 1) :
        Cardinality({p \in DOMAIN new_values : new_values[p] = i}) = 1}

\* [i for i in Connection.possible_connections if new_values.count(i) == 1]
values_appearing_once(new_values) ==
    {i \in possible_connections : Count(new_values, i) = 1}

\* The connections setter correcting only the first Connection whose value
\* appears once (a loop left after its first pass).
connections_setter_first_only(values, zd) ==
    LET once == values_appearing_once(values)
        hits == {p \in DOMAIN values : values[p] \in once}
    IN  [p \in DOMAIN values |->
            IF p \in hits /\ \A q \in hits : p <= q THEN 0 ELSE values[p]]

\* ConnectivityVector.connections (setter) on a list of Connection objects
\* with the given values: every Connection whose value appears once is
\* assigned 0 through the Connection setter.
connections_setter(values, zd) ==
    LET once == values_appearing_once(values)
    IN  [p \in DOMAIN values |->
            IF values[p] \in once
            THEN network_connection_setter(values[p], p, zd, 0).value
            ELSE values[p]]

\* reset returning self without the assignment self.connections = self.connections
reset_without_assignment(values, zd) == values

\* ConnectivityVector.reset: self.connections = self.connections
reset(values, zd) == connections_setter(values, zd)

\* ConnectivityVector(connection_list) for a list of Connection objects built
\* one per building with the given network connections.
ConnectivityVector(network_connections, zd) ==
    connections_setter([p \in Positions |-> Connection(network_connections[p], p, zd)], zd)

\* ConnectivityVector.__setitem__ with an int key: the values afterwards and
\* the outcome. round(value, 2) of an int is that int.
setitem(values, zd, p, value) ==
    LET r == network_connection_setter(values[p], p, zd, value)
    IN  [err |-> r.err, values |-> [values EXCEPT ![p] = r.value]]

\* The loop "for index in range(first, stop): self[index] = new[index]" from
\* position first on: it stops at the first assignment that raises, keeping
\* the assignments made before it.
RECURSIVE assign_loop(_, _, _, _, _)
assign_loop(values, zd, new, first, last) ==
    IF first > last
    THEN [err |-> "none", values |-> values]
    ELSE LET r == setitem(values, zd, first, new[first])
         IN  IF r.err # "none"
             THEN r
             ELSE assign_loop(r.values, zd, new, first + 1, last)

\* ConnectivityVector.values (setter): a list of another length is refused;
\* values appearing once in the new list are rewritten to 0, then every
\* position is assigned in turn.
values_setter(values, zd, new_values) ==
    IF Len(new_values) # Len(values)
    THEN [err |-> "InvalidValue", values |-> values]
    ELSE LET once == values_appearing_once(new_values)
             rewritten == [p \in DOMAIN new_values |->
                              IF new_values[p] \in once THEN 0 ELSE new_values[p]]
         IN  assign_loop(values, zd, rewritten, 1, Len(values))

\* __setitem__ with a slice writing from the start of the genome on,
\* range(0, ind_stop - ind_start), whatever key.start is
setslice_from_the_start(values, zd, start, stop, value) ==
    LET new == [p \in DOMAIN values |-> IF p <= stop - start THEN value[p] ELSE 0]
    IN  assign_loop(values, zd, new, 1, stop - start)

\* ConnectivityVector.__setitem__ with the slice [start:stop] (step 1), start
\* and stop as python indexes: positions start + 1 .. stop take
\* value[index - start].
setslice(values, zd, start, stop, value) ==
    LET new == [p \in DOMAIN values |->
                   IF p > start /\ p <= stop THEN value[p - start] ELSE 0]
    IN  assign_loop(values, zd, new, start + 1, stop)

\* ConnectivityVector.__getitem__ with the slice [start:stop]
getslice(values, start, stop) == [i \in 1..(stop - start) |-> values[start + i]]

----------------------------------------------------------------------------
(* Mutation *)

\* Clustering(connection_points).cluster(): one cluster id per building,
\* negative ids marking outliers. An external collaborator: any such list,
\* the ids being numbered in order of first appearance (0 before 1, -1
\* before -2).
ClusterIds == (0 - 2)..1

ClusterResults ==
    {c \in [Positions -> ClusterIds] :
        \A p \in Positions :
            /\ c[p] = 1 => \E q \in 1..(p - 1) : c[q] = 0
            /\ c[p] = 0 - 2 => \E q \in 1..(p - 1) : c[q] = 0 - 1}

\* mutShuffleIndexes writing the two positions in turn:
\*   individual[i] = individual[swap_indx]; individual[swap_indx] = individual[i]
RECURSIVE mutShuffleIndexes_in_turn(_, _, _, _)
mutShuffleIndexes_in_turn(values, zd, draws, i) ==
    IF i > Len(values)
    THEN values
    ELSE IF draws[i] < 0
         THEN mutShuffleIndexes_in_turn(values, zd, draws, i + 1)
         ELSE LET swap_indx == IF draws[i] >= i - 1 THEN draws[i] + 2 ELSE draws[i] + 1
                  first == setitem(values, zd, i, values[swap_indx]).values
                  second == setitem(first, zd, swap_indx, first[i]).values
              IN  mutShuffleIndexes_in_turn(second, zd, draws, i + 1)

\* deap.tools.mutShuffleIndexes(individual, indpb), from position i on.
\* draws[p] is -1 when random.random() >= indpb at p, else
\* random.randint(0, size - 2), a python index:
\*   if swap_indx >= i: swap_indx += 1
\*   individual[i], individual[swap_indx] = individual[swap_indx], individual[i]
RECURSIVE mutShuffleIndexes(_, _, _, _)
mutShuffleIndexes(values, zd, draws, i) ==
    IF i > Len(values)
    THEN values
    ELSE IF draws[i] < 0
         THEN mutShuffleIndexes(values, zd, draws, i + 1)
         ELSE LET swap_indx == IF draws[i] >= i - 1 THEN draws[i] + 2 ELSE draws[i] + 1
                  first == setitem(values, zd, i, values[swap_indx]).values
                  second == setitem(first, zd, swap_indx, values[i]).values
              IN  mutShuffleIndexes(second, zd, draws, i + 1)

\* deap.tools.mutUniformInt(individual, low=0, up=nbr_of_networks, indpb).
\* draws[p] is -1 when random.random() >= indpb at p, else random.randint(0, up).
mutUniformInt(values, zd, draws) ==
    [p \in DOMAIN values |->
        IF draws[p] < 0 THEN values[p] ELSE setitem(values, zd, p, draws[p]).values[p]]

\* ClusterSwitch drawing the new value inside the loop over the buildings of
\* a cluster: the buildings after the first get a value of their own (here
\* the next one)
ClusterSwitch_draw_per_building(values, zd, cix, new_connectivity, coins, outlier_draws) ==
    [p \in DOMAIN values |->
        IF p \notin coins
        THEN values[p]
        ELSE IF cix[p] >= 0
             THEN LET first == \A q \in DOMAIN cix : cix[q] = cix[p] => p <= q
                      drawn == IF first
                               THEN new_connectivity[cix[p]]
                               ELSE (new_connectivity[cix[p]] + 1) % (MaxNetworks + 1)
                  IN  setitem(values, zd, p, drawn).values[p]
             ELSE setitem(values, zd, p, outlier_draws[p]).values[p]]

\* ConnectivityVector.ClusterSwitch(cv, mut_prob). new_connectivity[c] is the
\* value drawn for cluster c >= 0, coins the positions where
\* random.random() < mut_prob (for an outlier: in one pass at least),
\* outlier_draws[p] the value last drawn for such an outlier p (every pass
\* over a negative cluster id redraws every outlier whose coin succeeds, so
\* the value kept is the one of the last draw).
ClusterSwitch(values, zd, cix, new_connectivity, coins, outlier_draws) ==
    [p \in DOMAIN values |->
        IF p \notin coins
        THEN values[p]
        ELSE IF cix[p] >= 0
             THEN setitem(values, zd, p, new_connectivity[cix[p]]).values[p]
             ELSE setitem(values, zd, p, outlier_draws[p]).values[p]]

----------------------------------------------------------------------------
(* Crossover *)

\* cv_1[i] = cv_2[i]; cv_2[i] = cv_1[i] for every position i of S: the second
\* assignment reads what the first has written.
swap_positions_in_turn(values_1, values_2, zd, S) ==
    <<[p \in DOMAIN values_1 |->
          IF p \in S THEN setitem(values_1, zd, p, values_2[p]).values[p] ELSE values_1[p]],
      values_2>>

\* cv_1[i], cv_2[i] = cv_2[i], cv_1[i] for every position i of S: both right
\* hand sides are read before either assignment.
swap_positions(values_1, values_2, zd, S) ==
    <<[p \in DOMAIN values_1 |->
          IF p \in S THEN setitem(values_1, zd, p, values_2[p]).values[p] ELSE values_1[p]],
      [p \in DOMAIN values_2 |->
          IF p \in S THEN setitem(values_2, zd, p, values_1[p]).values[p] ELSE values_2[p]]>>

\* ind1[a:b], ind2[a:b] = ind2[a:b], ind1[a:b] (deap.tools.cxOnePoint with
\* b = size, deap.tools.cxTwoPoint): both slices are read, then written
\* through __setitem__.
swap_slices(values_1, values_2, zd, a, b) ==
    <<setslice(values_1, zd, a, b, getslice(values_2, a, b)).values,
      setslice(values_2, zd, a, b, getslice(values_1, a, b)).values>>

\* list(set(ConnectivityVector._cluster_indexes))
clusters_of(cix) == {cix[p] : p \in DOMAIN cix}

\* ClusterSwap exchanging only the first building of every selected cluster,
\* _cluster_indexes.index(cluster), instead of all its buildings
ClusterSwap_first_building(values_1, values_2, zd, cix, selected_clusters) ==
    swap_positions(values_1, values_2, zd,
                   {p \in DOMAIN cix : /\ cix[p] \in selected_clusters
                                       /\ \A q \in DOMAIN cix : cix[q] = cix[p] => p <= q})

\* ConnectivityVector.ClusterSwap(cv_1, cv_2, cx_prob), selected_clusters
\* being the clusters select_values_with_probability kept.
ClusterSwap(values_1, values_2, zd, cix, selected_clusters) ==
    swap_positions(values_1, values_2, zd,
                   {p \in DOMAIN cix : cix[p] \in selected_clusters})

\* max(set(building_connectivity_values), key=building_connectivity_values.count):
\* max keeps the first maximal element it meets, and CPython iterates a set
\* of small non-negative ints in increasing order.
most_prevalent(building_connectivity_values) ==
    LET present == {building_connectivity_values[i] : i \in DOMAIN building_connectivity_values}
        best == {v \in present :
                    \A w \in present : Count(building_connectivity_values, w)
                                         <= Count(building_connectivity_values, v)}
    IN  CHOOSE v \in best : \A w \in best : v <= w

\* Values of the positions of a cluster, as a list in position order.
RECURSIVE cluster_values(_, _, _, _)
cluster_values(values, cix, cluster, p) ==
    IF p > Len(values)
    THEN <<>>
    ELSE IF cix[p] = cluster
         THEN <<values[p]>> \o cluster_values(values, cix, cluster, p + 1)
         ELSE cluster_values(values, cix, cluster, p + 1)

\* ConnectivityVector._get_most_prevalent_connectivity_values(cv, clusters):
\* None (here -1) for outliers.
get_most_prevalent_connectivity_values(values, cix) ==
    [p \in DOMAIN values |->
        IF cix[p] < 0
        THEN 0 - 1
        ELSE most_prevalent(cluster_values(values, cix, cix[p], 1))]

\* swappable_building_indexes of ConnectivityVector.ClusterAlignment
swappable_building_indexes(values_1, values_2, cix) ==
    LET pcv_1 == get_most_prevalent_connectivity_values(values_1, cix)
        pcv_2 == get_most_prevalent_connectivity_values(values_2, cix)
    IN  {p \in DOMAIN values_1 : values_1[p] = pcv_2[p] /\ values_2[p] = pcv_1[p]}

\* ConnectivityVector.ClusterAlignment(cv_1, cv_2, cx_prob), buildings_to_swap
\* being the swappable buildings select_values_with_probability kept.
ClusterAlignment(values_1, values_2, zd, buildings_to_swap) ==
    swap_positions(values_1, values_2, zd, buildings_to_swap)

----------------------------------------------------------------------------
(* Identity and selection *)

\* str(n) of an int n >= 0: its decimal digits.
RECURSIVE str(_)
str(n) ==
    LET digits == <<"0", "1", "2", "3", "4", "5", "6", "7", "8", "9">>
    IN  IF n < 10
        THEN <<digits[n + 1]>>
        ELSE str(n \div 10) \o <<digits[(n % 10) + 1]>>

\* as_str leaving out the values that are falsy (0)
RECURSIVE as_str_without_zeros(_)
as_str_without_zeros(values) ==
    IF values = <<>>
    THEN <<>>
    ELSE LET rest == as_str_without_zeros(Tail(values))
         IN  IF Head(values) = 0
             THEN rest
             ELSE IF rest = <<>>
                  THEN str(Head(values))
                  ELSE str(Head(values)) \o <<"_">> \o rest

\* ConnectivityVector.as_str: '_'.join(map(str, self.values)), as the
\* sequence of its characters.
RECURSIVE as_str(_)
as_str(values) ==
    IF values = <<>>
    THEN <<>>
    ELSE IF Len(values) = 1
         THEN str(values[1])
         ELSE str(Head(values)) \o <<"_">> \o as_str(Tail(values))

\* ConnectivityVector.__hash__: hash(self.values). The hash of a tuple mixes
\* the hashes of its items in order (the hash of a small int is that int); the
\* mixing is written as a polynomial.
RECURSIVE hash(_)
hash(values) ==
    IF values = <<>>
    THEN 7
    ELSE (31 * hash(SubSeq(values, 1, Len(values) - 1)) + values[Len(values)]) % 65536

\* ConnectivityVector.__eq__ between two genomes: self.values == other.values
eq(values, other) == values = other

\* individual_dict keeping the first genome of a key:
\* individual_dict.setdefault(ind.as_str(), ind)
individual_dict_first_wins(individuals) ==
    [key \in {as_str(individuals[i]) : i \in DOMAIN individuals} |->
        CHOOSE i \in DOMAIN individuals :
            /\ as_str(individuals[i]) = key
            /\ \A j \in DOMAIN individuals : as_str(individuals[j]) = key => i <= j]

\* individual_dict = {ind.as_str(): ind for ind in individuals_list}: a later
\* genome replaces an earlier one of the same key. The genome objects are
\* named by their places in individuals_list.
individual_dict(individuals) ==
    [key \in {as_str(individuals[i]) : i \in DOMAIN individuals} |->
        CHOOSE i \in DOMAIN individuals :
            /\ as_str(individuals[i]) = key
            /\ \A j \in DOMAIN individuals : as_str(individuals[j]) = key => j <= i]

\* The encodings of the solutions sortLogNondominated put in the given front.
keys_in_front(combinations, fronts, front) ==
    {combinations[s] : s \in {t \in DOMAIN combinations : fronts[t] = front}}

\* The lists list(set(...)) can be for a set: the iteration order of a set of
\* strings depends on their (per process randomised) hashes.
orders_of(set) ==
    {order \in [1..Cardinality(set) -> set] :
        \A i, j \in 1..Cardinality(set) : i # j => order[i] # order[j]}

\* The values connectivity_vectors_by_front can take, as a list of lists.
connectivity_vectors_by_front(combinations, fronts) ==
    LET nbr_fronts == Cardinality({fronts[s] : s \in DOMAIN fronts})
        all_orders == UNION {orders_of(keys_in_front(combinations, fronts, f - 1)) :
                                f \in 1..nbr_fronts}
    IN  {by_front \in [1..nbr_fronts -> all_orders] :
            \A f \in 1..nbr_fronts :
                by_front[f] \in orders_of(keys_in_front(combinations, fronts, f - 1))}

\* The inner loop of select without "del individual_dict[connectivity_vector]"
RECURSIVE select_in_front_without_del(_, _, _, _, _, _)
select_in_front_without_del(front, i, dict, keys, population, size) ==
    IF i > Len(front) \/ Len(population) >= size
    THEN [new_population |-> population, keys |-> keys]
    ELSE IF front[i] \in keys
         THEN select_in_front_without_del(front, i + 1, dict, keys,
                                          Append(population, dict[front[i]]), size)
         ELSE select_in_front_without_del(front, i + 1, dict, keys, population, size)

\* The inner loop of select, "for connectivity_vector in front", from the
\* i-th key of the front on; keys are the keys still in individual_dict.
RECURSIVE select_in_front(_, _, _, _, _, _)
select_in_front(front, i, dict, keys, population, size) ==
    IF i > Len(front) \/ Len(population) >= size
    THEN [new_population |-> population, keys |-> keys]
    ELSE IF front[i] \in keys
         THEN select_in_front(front, i + 1, dict, keys \ {front[i]},
                              Append(population, dict[front[i]]), size)
         ELSE select_in_front(front, i + 1, dict, keys, population, size)

\* The outer loop of select leaving after the first front it walks
select_fronts_first_only(by_front, f, dict, keys, population, size) ==
    IF f > Len(by_front) \/ Len(population) >= size
    THEN population
    ELSE select_in_front(by_front[f], 1, dict, keys, population, size).new_population

\* The outer loop of select walking the fronts from the last to the first
RECURSIVE select_fronts_backwards(_, _, _, _, _, _)
select_fronts_backwards(by_front, f, dict, keys, population, size) ==
    IF f > Len(by_front) \/ Len(population) >= size
    THEN population
    ELSE LET r == select_in_front(by_front[Len(by_front) + 1 - f], 1, dict, keys,
                                  population, size)
         IN  select_fronts_backwards(by_front, f + 1, dict, r.keys, r.new_population, size)

\* The outer loop of select, "for front in connectivity_vectors_by_front.values()",
\* from the f-th front on.
RECURSIVE select_fronts(_, _, _, _, _, _)
select_fronts(by_front, f, dict, keys, population, size) ==
    IF f > Len(by_front) \/ Len(population) >= size
    THEN population
    ELSE LET r == select_in_front(by_front[f], 1, dict, keys, population, size)
         IN  select_fronts(by_front, f + 1, dict, r.keys, r.new_population, size)

\* ConnectivityVector.select(individuals_list, energy_system_solutions_dict,
\* population_size) once the solutions are sorted in fronts and the keys of
\* each front are listed.
select(individuals, by_front, size) ==
    LET dict == individual_dict(individuals)
    IN  select_fronts(by_front, 1, dict, DOMAIN dict, <<>>, size)

----------------------------------------------------------------------------
(* The calls of the driver *)

\* generate('random') building its Connections without their building,
\* Connection(random.randint(...)): no zero-demand building is recognised.
generate_random_without_building(zd) ==
    {[p \in Positions |-> Connection(nc[p], p, {})] :
        nc \in [Positions -> possible_connections]}

\* ConnectivityVector.generate('random'): one Connection per building, each
\* with random.randint(0, nbr_networks), stored through Connection.__init__.
generate_random(zd) ==
    {[p \in Positions |-> Connection(nc[p], p, zd)] :
        nc \in [Positions -> possible_connections]}

\* ConnectivityVector.generate(method) for another method: Connection(0, building)
generate_default(zd) == [p \in Positions |-> Connection(0, p, zd)]

\* The genomes ConnectivityVector(ConnectivityVector.generate('random')) can be.
new_genomes(zd) == {connections_setter(connections, zd) : connections \in generate_random(zd)}

\* The genomes single-position assignments of legal values can make of a
\* new genome: cv[0] = v[0], cv[1] = v[1], ...
assigned_genomes(zd) ==
    {assign_loop(connections_setter(generate_default(zd), zd), zd, v, 1, NumBuildings).values :
        v \in [Positions -> possible_connections]}

\* cluster_once without the test of the cached value
cluster_every_call ==
    cluster_indexes' \in ClusterResults /\ cluster_calls' = cluster_calls + 1

\* if not ConnectivityVector._cluster_indexes:
\*     ConnectivityVector._cluster_indexes = Clustering(connection_points).cluster()
cluster_once ==
    IF cluster_indexes = <<>>
    THEN cluster_indexes' \in ClusterResults /\ cluster_calls' = cluster_calls + 1
    ELSE cluster_indexes' = cluster_indexes /\ cluster_calls' = cluster_calls

\* What is remembered of a call: its name, algorithm and argument, how it
\* ended, the genomes reset and those the connections setter changed.
record(o, a, x, e, r, c) ==
    /\ op' = o /\ alg' = a /\ arg' = x /\ err' = e /\ resets' = r /\ collapsed' = c
    /\ reset_run' = IF o # "reset"
                    THEN <<>>
                    ELSE IF Len(reset_run) < 2
                         THEN Append(reset_run, 1 \in c)
                         ELSE <<reset_run[2], 1 \in c>>
    /\ calls' = IF o \in {"mutate", "mate"} /\ calls < MaxCalls THEN calls + 1 ELSE calls
    /\ UNCHANGED <<generated, individuals_list, all_supsys_combinations, solution_fronts,
                   population_size, new_population, selected>>

\* What is remembered of the last crossover or operator call.
history(b, c, a, m) ==
    before' = b /\ chosen' = c /\ again' = a /\ modes' = m /\ redraws' = <<>>

\* What is remembered of the last call of a mutation operator.
history_switch(b, n) ==
    before' = b /\ chosen' = {} /\ again' = FALSE /\ modes' = <<>> /\ redraws' = n

no_history == history(<<>>, {}, FALSE, <<>>)

\* No population handed to select.
no_selection ==
    /\ individuals_list = <<>> /\ all_supsys_combinations = <<>>
    /\ solution_fronts = <<>> /\ population_size = 0 /\ new_population = <<>>
    /\ selected = <<>>

no_call ==
    /\ op = "init" /\ alg = "" /\ arg = 0 /\ err = "none"
    /\ resets = {} /\ collapsed = {} /\ reset_run = <<>>
    /\ before = <<>> /\ chosen = {} /\ again = FALSE /\ modes = <<>>
    /\ redraws = <<>> /\ generated = <<>>
    /\ calls = 0

\* After Connection.initialize_class_variables(domain): a new random genome,
\* a second one of generate('default'), no cluster index yet.
Init ==
    /\ zero_demand_buildings \in SUBSET Positions
    /\ cv_1 \in new_genomes(zero_demand_buildings)
    /\ cv_2 = connections_setter(generate_default(zero_demand_buildings), zero_demand_buildings)
    /\ cluster_indexes = <<>>
    /\ cluster_calls = 0
    /\ no_call
    /\ no_selection

\* cv_1 = ConnectivityVector(ConnectivityVector.generate('random'))
Construct ==
    \E connections \in generate_random(zero_demand_buildings) :
        LET values == connections_setter(connections, zero_demand_buildings)
        IN  /\ cv_1' = values
            /\ record("construct", "", 0, "none", {},
                      IF values # connections THEN {1} ELSE {})
            /\ UNCHANGED <<zero_demand_buildings, cv_2, cluster_indexes, cluster_calls>>
            /\ no_history

\* cv_1[p - 1] = value
SetItem ==
    \E p \in Positions, value \in ConnectionInputs :
        LET r == setitem(cv_1, zero_demand_buildings, p, value)
        IN  /\ cv_1' = r.values
            /\ record("setitem", "", value, r.err, {}, {})
            /\ UNCHANGED <<zero_demand_buildings, cv_2, cluster_indexes, cluster_calls>>
            /\ no_history

\* cv_1[start:stop] = value
SetSlice ==
    \E start \in 0..(NumBuildings - 1) :
    \E stop \in (start + 1)..NumBuildings :
    \E value \in [1..(stop - start) -> BulkInputs] :
        LET r == setslice(cv_1, zero_demand_buildings, start, stop, value)
        IN  /\ cv_1' = r.values
            /\ record("setslice", "", 0, r.err, {}, {})
            /\ UNCHANGED <<zero_demand_buildings, cv_2, cluster_indexes, cluster_calls>>
            /\ no_history

\* cv_1.values = new_values
SetValues ==
    \E new_values \in [Positions -> BulkInputs] \cup {[p \in 1..(NumBuildings - 1) |-> 0]} :
        LET r == values_setter(cv_1, zero_demand_buildings, new_values)
        IN  /\ cv_1' = r.values
            /\ record("values", "", Len(new_values), r.err, {}, {})
            /\ UNCHANGED <<zero_demand_buildings, cv_2, cluster_indexes, cluster_calls>>
            /\ no_history

\* cv_1.reset()
Reset ==
    LET values == reset(cv_1, zero_demand_buildings)
    IN  /\ cv_1' = values
        /\ record("reset", "", 0, "none", {1}, IF values # cv_1 THEN {1} ELSE {})
        /\ UNCHANGED <<zero_demand_buildings, cv_2, cluster_indexes, cluster_calls>>
        /\ no_history

\* The end of ConnectivityVector.mutate for a mutation of deap, which returns
\* the 1-tuple (individual,): mutated_cv[0].reset(); return mutated_cv
mutate_return(mutated_cv, algorithm) ==
    LET values == reset(mutated_cv, zero_demand_buildings)
    IN  /\ cv_1' = values
        /\ record("mutate", algorithm, 0, "none", {1},
                  IF values # mutated_cv THEN {1} ELSE {})
        /\ UNCHANGED <<zero_demand_buildings, cv_2>>

\* ConnectivityVector.mutate(cv_1, algorithm) with algorithm.mutation =
\* 'ShuffleIndexes'
MutateShuffleIndexes ==
    /\ \E draws \in [Positions -> (0 - 1)..(NumBuildings - 2)] :
          mutate_return(mutShuffleIndexes(cv_1, zero_demand_buildings, draws, 1),
                        "ShuffleIndexes")
    /\ UNCHANGED <<cluster_indexes, cluster_calls>>
    /\ no_history

\* algorithm.mutation = 'UniformInteger'
MutateUniformInteger ==
    /\ \E draws \in [Positions -> (0 - 1)..MaxNetworks] :
          mutate_return(mutUniformInt(cv_1, zero_demand_buildings, draws), "UniformInteger")
    /\ UNCHANGED <<cluster_indexes, cluster_calls>>
    /\ no_history

\* algorithm.mutation = 'ClusterSwitch': ClusterSwitch returns cv itself, not
\* a tuple, so mutated_cv[0] is cv.__getitem__(0), an int, and
\* mutated_cv[0].reset() raises AttributeError after the genome was mutated.
MutateClusterSwitch ==
    /\ cluster_once
    /\ \E coins \in SUBSET Positions :
       \E new_connectivity \in
              [{c \in clusters_of(cluster_indexes') : c >= 0} -> possible_connections] :
       \E outlier_draws \in
              [{p \in coins : cluster_indexes'[p] < 0} -> possible_connections] :
          cv_1' = ClusterSwitch(cv_1, zero_demand_buildings, cluster_indexes',
                                new_connectivity, coins, outlier_draws)
    /\ record("mutate", "ClusterSwitch", 0, "AttributeError", {}, {})
    /\ no_history
    /\ UNCHANGED <<zero_demand_buildings, cv_2>>

\* mutate computing the cluster index before it looks at algorithm.mutation
MutateUnsupportedAfterClustering ==
    /\ cluster_once
    /\ record("mutate", "Unsupported", 0, "UnsupportedAlgorithm", {}, {})
    /\ no_history
    /\ UNCHANGED <<zero_demand_buildings, cv_1, cv_2>>

\* any other algorithm.mutation: ValueError before anything is touched
MutateUnsupported ==
    /\ record("mutate", "Unsupported", 0, "UnsupportedAlgorithm", {}, {})
    /\ UNCHANGED <<zero_demand_buildings, cv_1, cv_2, cluster_indexes, cluster_calls>>
    /\ no_history

\* ConnectivityVector.mutate(cv, algorithm, connection_points)
Mutate ==
    \/ MutateShuffleIndexes
    \/ MutateUniformInteger
    \/ MutateClusterSwitch
    \/ MutateUnsupported

\* The end of mate without recombined_cvs[1].reset()
mate_return_first_only(recombined_cvs, algorithm) ==
    LET values_1 == reset(recombined_cvs[1], zero_demand_buildings)
    IN  /\ cv_1' = values_1
        /\ cv_2' = recombined_cvs[2]
        /\ record("mate", algorithm, 0, "none", {1, 2},
                  IF values_1 # recombined_cvs[1] THEN {1} ELSE {})
        /\ UNCHANGED zero_demand_buildings

\* The end of ConnectivityVector.mate: recombined_cvs[0].reset();
\* recombined_cvs[1].reset(); return recombined_cvs
mate_return(recombined_cvs, algorithm) ==
    LET values_1 == reset(recombined_cvs[1], zero_demand_buildings)
        values_2 == reset(recombined_cvs[2], zero_demand_buildings)
    IN  /\ cv_1' = values_1
        /\ cv_2' = values_2
        /\ record("mate", algorithm, 0, "none", {1, 2},
                  (IF values_1 # recombined_cvs[1] THEN {1} ELSE {})
                      \cup (IF values_2 # recombined_cvs[2] THEN {2} ELSE {}))
        /\ UNCHANGED zero_demand_buildings

\* algorithm.crossover = 'OnePoint': cxpoint = random.randint(1, size - 1)
MateOnePoint ==
    /\ \E cxpoint \in 1..(NumBuildings - 1) :
          mate_return(swap_slices(cv_1, cv_2, zero_demand_buildings, cxpoint, NumBuildings),
                      "OnePoint")
    /\ UNCHANGED <<cluster_indexes, cluster_calls>>
    /\ history(<<cv_1, cv_2>>, {}, FALSE, <<>>)

\* algorithm.crossover = 'TwoPoint': after the ordering of the two points,
\* 1 <= cxpoint1 < cxpoint2 <= size
MateTwoPoint ==
    /\ \E cxpoint1 \in 1..(NumBuildings - 1) :
       \E cxpoint2 \in (cxpoint1 + 1)..NumBuildings :
          mate_return(swap_slices(cv_1, cv_2, zero_demand_buildings, cxpoint1, cxpoint2),
                      "TwoPoint")
    /\ UNCHANGED <<cluster_indexes, cluster_calls>>
    /\ history(<<cv_1, cv_2>>, {}, FALSE, <<>>)

\* algorithm.crossover = 'Uniform': position i is swapped when
\* random.random() < indpb
MateUniform ==
    /\ \E swapped \in SUBSET Positions :
          mate_return(swap_positions(cv_1, cv_2, zero_demand_buildings, swapped), "Uniform")
    /\ UNCHANGED <<cluster_indexes, cluster_calls>>
    /\ history(<<cv_1, cv_2>>, {}, FALSE, <<>>)

\* algorithm.crossover = 'ClusterSwap'
MateClusterSwap ==
    /\ cluster_once
    /\ \E selected_clusters \in SUBSET clusters_of(cluster_indexes') :
          /\ mate_return(ClusterSwap(cv_1, cv_2, zero_demand_buildings, cluster_indexes',
                                     selected_clusters), "ClusterSwap")
          /\ history(<<cv_1, cv_2>>, selected_clusters, FALSE, <<>>)

\* A second mate with algorithm.crossover = 'ClusterSwap' right after the
\* first, select_values_with_probability keeping the same clusters.
MateClusterSwapAgain ==
    /\ op = "mate" /\ alg = "ClusterSwap" /\ ~again
    /\ cluster_once
    /\ mate_return(ClusterSwap(cv_1, cv_2, zero_demand_buildings, cluster_indexes', chosen),
                   "ClusterSwap")
    /\ history(before, chosen, TRUE, <<>>)

\* algorithm.crossover = 'ClusterAlignment'
MateClusterAlignment ==
    /\ cluster_once
    /\ \E buildings_to_swap \in
              SUBSET swappable_building_indexes(cv_1, cv_2, cluster_indexes') :
          mate_return(ClusterAlignment(cv_1, cv_2, zero_demand_buildings, buildings_to_swap),
                      "ClusterAlignment")
    /\ history(<<cv_1, cv_2>>, {}, FALSE, <<>>)

\* any other algorithm.crossover: ValueError before anything is touched
MateUnsupported ==
    /\ record("mate", "Unsupported", 0, "UnsupportedAlgorithm", {}, {})
    /\ UNCHANGED <<zero_demand_buildings, cv_1, cv_2, cluster_indexes, cluster_calls>>
    /\ no_history

\* ConnectivityVector.mate(cv_1, cv_2, algorithm, connection_points)
Mate ==
    \/ MateOnePoint
    \/ MateTwoPoint
    \/ MateUniform
    \/ MateClusterSwap
    \/ MateClusterAlignment
    \/ MateUnsupported

\* ConnectivityVector.ClusterSwap(cv_1, cv_2, cx_prob) called on its own.
\* Without a cluster index, set(None) raises TypeError.
CallClusterSwap ==
    IF cluster_indexes = <<>>
    THEN /\ record("ClusterSwap", "", 0, "TypeError", {}, {})
         /\ no_history
         /\ UNCHANGED <<zero_demand_buildings, cv_1, cv_2, cluster_indexes, cluster_calls>>
    ELSE \E selected_clusters \in SUBSET clusters_of(cluster_indexes) :
            LET swapped == ClusterSwap(cv_1, cv_2, zero_demand_buildings, cluster_indexes,
                                       selected_clusters)
            IN  /\ cv_1' = swapped[1]
                /\ cv_2' = swapped[2]
                /\ record("ClusterSwap", "", 0, "none", {}, {})
                /\ history(<<cv_1, cv_2>>, selected_clusters, FALSE, <<>>)
                /\ UNCHANGED <<zero_demand_buildings, cluster_indexes, cluster_calls>>

\* ConnectivityVector.ClusterSwap called a second time right after the
\* first, select_values_with_probability keeping the same clusters.
CallClusterSwapAgain ==
    /\ op = "ClusterSwap" /\ err = "none" /\ ~again
    /\ LET swapped == ClusterSwap(cv_1, cv_2, zero_demand_buildings, cluster_indexes, chosen)
       IN  /\ cv_1' = swapped[1]
           /\ cv_2' = swapped[2]
    /\ record("ClusterSwap", "", 0, "none", {}, {})
    /\ history(before, chosen, TRUE, <<>>)
    /\ UNCHANGED <<zero_demand_buildings, cluster_indexes, cluster_calls>>

\* ConnectivityVector.ClusterAlignment(cv_1, cv_2, cx_prob) called on its own.
CallClusterAlignment ==
    IF cluster_indexes = <<>>
    THEN /\ record("ClusterAlignment", "", 0, "TypeError", {}, {})
         /\ no_history
         /\ UNCHANGED <<zero_demand_buildings, cv_1, cv_2, cluster_indexes, cluster_calls>>
    ELSE \E buildings_to_swap \in
                SUBSET swappable_building_indexes(cv_1, cv_2, cluster_indexes) :
            LET swapped == ClusterAlignment(cv_1, cv_2, zero_demand_buildings,
                                            buildings_to_swap)
            IN  /\ cv_1' = swapped[1]
                /\ cv_2' = swapped[2]
                /\ record("ClusterAlignment", "", 0, "none", {}, {})
                /\ history(<<cv_1, cv_2>>, buildings_to_swap, FALSE,
                           <<get_most_prevalent_connectivity_values(cv_1, cluster_indexes),
                             get_most_prevalent_connectivity_values(cv_2, cluster_indexes)>>)
                /\ UNCHANGED <<zero_demand_buildings, cluster_indexes, cluster_calls>>

\* tools.mutShuffleIndexes(cv_1, mut_prob) as mutate calls it, before the
\* reset() that follows it.
CallShuffleIndexes ==
    \E draws \in [Positions -> (0 - 1)..(NumBuildings - 2)] :
        /\ cv_1' = mutShuffleIndexes(cv_1, zero_demand_buildings, draws, 1)
        /\ record("ShuffleIndexes", "", 0, "none", {}, {})
        /\ history_switch(<<cv_1, cv_2>>, <<>>)
        /\ UNCHANGED <<zero_demand_buildings, cv_2, cluster_indexes, cluster_calls>>

\* ConnectivityVector.ClusterSwitch(cv_1, mut_prob) called on its own. The
\* else branch of its loop runs once for every distinct negative cluster id
\* and walks all outliers each time: an outlier whose coin succeeded in a
\* pass at least was assigned a drawn value in one pass or in several.
CallClusterSwitch ==
    IF cluster_indexes = <<>>
    THEN /\ record("ClusterSwitch", "", 0, "TypeError", {}, {})
         /\ no_history
         /\ UNCHANGED <<zero_demand_buildings, cv_1, cv_2, cluster_indexes, cluster_calls>>
    ELSE LET outliers == {p \in Positions : cluster_indexes[p] < 0}
             passes == Cardinality({c \in clusters_of(cluster_indexes) : c < 0})
         IN  \E coins \in SUBSET Positions :
             \E new_connectivity \in
                    [{c \in clusters_of(cluster_indexes) : c >= 0} -> possible_connections] :
             \E outlier_draws \in [coins \cap outliers -> possible_connections] :
             \E assigned \in [outliers -> 0..passes] :
                /\ \A p \in outliers : assigned[p] > 0 <=> p \in coins
                /\ cv_1' = ClusterSwitch(cv_1, zero_demand_buildings, cluster_indexes,
                                         new_connectivity, coins, outlier_draws)
                /\ record("ClusterSwitch", "", 0, "none", {}, {})
                /\ history_switch(<<cv_1, cv_2>>,
                                  [p \in outliers |-> <<passes, assigned[p]>>])
                /\ UNCHANGED <<zero_demand_buildings, cv_2, cluster_indexes, cluster_calls>>

\* The list of Connections a call of generate returns: the Connection of
\* the p-th building of Connection.possible_building_codes at place p.
connections_list(network_connections) ==
    [p \in DOMAIN network_connections |->
        [building |-> p, network_connection |-> network_connections[p]]]

\* What is remembered of a call of generate.
generate_return(method, connections) ==
    /\ generated' = connections_list(connections)
    /\ op' = "generate" /\ alg' = method /\ arg' = 0 /\ err' = "none"
    /\ resets' = {} /\ collapsed' = {} /\ reset_run' = <<>>
    /\ no_history
    /\ UNCHANGED <<zero_demand_buildings, cv_1, cv_2, cluster_indexes, cluster_calls,
                   calls, individuals_list, all_supsys_combinations, solution_fronts,
                   population_size, new_population, selected>>

\* ConnectivityVector.generate('random')
GenerateRandom ==
    \E connections \in generate_random(zero_demand_buildings) :
        generate_return("random", connections)

\* ConnectivityVector.generate(method) with any other method
GenerateOther ==
    generate_return("other", generate_default(zero_demand_buildings))

\* What a crossover of deap called on its own leaves: tools.cx...(cv_1, cv_2)
\* as mate calls it, before the two reset() that follow it.
crossover_return(recombined_cvs, operator) ==
    /\ cv_1' = recombined_cvs[1]
    /\ cv_2' = recombined_cvs[2]
    /\ record(operator, "", 0, "none", {}, {})
    /\ history(<<cv_1, cv_2>>, {}, FALSE, <<>>)
    /\ UNCHANGED <<zero_demand_buildings, cluster_indexes, cluster_calls>>

\* tools.cxOnePoint(cv_1, cv_2): cxpoint = random.randint(1, size - 1)
CallOnePoint ==
    \E cxpoint \in 1..(NumBuildings - 1) :
        crossover_return(swap_slices(cv_1, cv_2, zero_demand_buildings, cxpoint, NumBuildings),
                         "OnePoint")

\* tools.cxTwoPoint(cv_1, cv_2): after the ordering of the two points,
\* 1 <= cxpoint1 < cxpoint2 <= size
CallTwoPoint ==
    \E cxpoint1 \in 1..(NumBuildings - 1) :
    \E cxpoint2 \in (cxpoint1 + 1)..NumBuildings :
        crossover_return(swap_slices(cv_1, cv_2, zero_demand_buildings, cxpoint1, cxpoint2),
                         "TwoPoint")

\* tools.cxUniform(cv_1, cv_2, cx_prob)
CallUniform ==
    \E swapped \in SUBSET Positions :
        crossover_return(swap_positions(cv_1, cv_2, zero_demand_buildings, swapped), "Uniform")

\* ConnectivityVector.select(individuals_list, energy_system_solutions_dict,
\* population_size)
Select ==
    \E by_front \in connectivity_vectors_by_front(all_supsys_combinations, solution_fronts) :
        LET population == select(individuals_list, by_front, population_size)
        IN  /\ selected' = population
            /\ new_population' = [i \in DOMAIN population |-> individuals_list[population[i]]]
            /\ op' = "select" /\ alg' = "" /\ arg' = 0 /\ err' = "none"
            /\ resets' = {} /\ collapsed' = {} /\ reset_run' = <<>>
            /\ no_history
            /\ UNCHANGED <<zero_demand_buildings, cv_1, cv_2, cluster_indexes,
                           cluster_calls, calls, generated, individuals_list,
                           all_supsys_combinations, solution_fronts, population_size>>

----------------------------------------------------------------------------
(* Specifications *)

\* The life of one genome: construction, single-position and values
\* assignments and reset, in any order.
Next ==
    \/ Construct
    \/ SetItem
    \/ SetValues
    \/ Reset

Spec == Init /\ [][Next]_vars

\* Bulk assignments to one genome, in any order.
NextBulk ==
    \/ SetValues
    \/ SetSlice

SpecBulk == Init /\ [][NextBulk]_vars

\* The first call of mutate or mate of a run: a genome in canonical form, a
\* second genome of generate('default'), no cluster index yet.
InitGA == Init

NextGA ==
    \/ op = "init" /\ MutateShuffleIndexes
    \/ op = "init" /\ MutateUniformInteger
    \/ op = "init" /\ MutateClusterSwitch
    \/ op = "init" /\ MutateUnsupported
    \/ op = "init" /\ MateOnePoint
    \/ op = "init" /\ MateTwoPoint
    \/ op = "init" /\ MateUniform
    \/ op = "init" /\ MateClusterSwap
    \/ op = "init" /\ MateClusterAlignment
    \/ op = "init" /\ MateUnsupported

SpecGA == InitGA /\ [][NextGA]_vars

\* One call of mate on any pair of genomes in canonical form.
InitMate ==
    /\ zero_demand_buildings \in SUBSET Positions
    /\ cv_1 \in new_genomes(zero_demand_buildings)
    /\ cv_2 \in new_genomes(zero_demand_buildings)
    /\ cluster_indexes \in {<<>>} \cup ClusterResults
    /\ cluster_calls = IF cluster_indexes = <<>> THEN 0 ELSE 1
    /\ no_call
    /\ no_selection

NextMate ==
    \/ op = "init" /\ MateOnePoint
    \/ op = "init" /\ MateTwoPoint
    \/ op = "init" /\ MateUniform
    \/ op = "init" /\ MateClusterSwap
    \/ op = "init" /\ MateClusterAlignment
    \/ op = "init" /\ MateUnsupported

SpecMate == InitMate /\ [][NextMate]_vars

\* One call of any kind in any state of a run: the first genome as
\* single-position assignments can leave it (canonical or not), the second
\* in canonical form, the cluster index computed or not yet.
InitAll ==
    /\ zero_demand_buildings \in SUBSET Positions
    /\ cv_1 \in assigned_genomes(zero_demand_buildings)
    /\ cv_2 \in new_genomes(zero_demand_buildings)
    /\ cluster_indexes \in {<<>>} \cup ClusterResults
    /\ cluster_calls = IF cluster_indexes = <<>> THEN 0 ELSE 1
    /\ no_call
    /\ no_selection

NextAll ==
    \/ op = "init" /\ Construct
    \/ op = "init" /\ SetItem
    \/ op = "init" /\ SetSlice
    \/ op = "init" /\ SetValues
    \/ op = "init" /\ Reset
    \/ op = "init" /\ MutateShuffleIndexes
    \/ op = "init" /\ MutateUniformInteger
    \/ op = "init" /\ MutateClusterSwitch
    \/ op = "init" /\ MutateUnsupported
    \/ op = "init" /\ MateOnePoint
    \/ op = "init" /\ MateTwoPoint
    \/ op = "init" /\ MateUniform
    \/ op = "init" /\ MateClusterSwap
    \/ op = "init" /\ MateClusterAlignment
    \/ op = "init" /\ MateUnsupported

SpecAll == InitAll /\ [][NextAll]_vars

\* The cluster-aware crossovers, called on their own or through mate, in any
\* state of a run; ClusterSwap possibly a second time with the same draws.
NextCluster ==
    \/ op = "init" /\ CallClusterSwap
    \/ CallClusterSwapAgain
    \/ op = "init" /\ CallClusterAlignment
    \/ op = "init" /\ MateClusterSwap
    \/ MateClusterSwapAgain

SpecCluster == InitAll /\ [][NextCluster]_vars

\* A run of the genetic algorithm: up to MaxCalls calls of mutate and mate in
\* any mode, in any order.
NextRun ==
    \/ calls < MaxCalls /\ MutateShuffleIndexes
    \/ calls < MaxCalls /\ MutateUniformInteger
    \/ calls < MaxCalls /\ MutateClusterSwitch
    \/ calls < MaxCalls /\ MutateUnsupported
    \/ calls < MaxCalls /\ MateOnePoint
    \/ calls < MaxCalls /\ MateTwoPoint
    \/ calls < MaxCalls /\ MateUniform
    \/ calls < MaxCalls /\ MateClusterSwap
    \/ calls < MaxCalls /\ MateClusterSwapAgain
    \/ calls < MaxCalls /\ MateClusterAlignment
    \/ calls < MaxCalls /\ MateUnsupported

SpecRun == Init /\ [][NextRun]_vars

\* One call of select: a population made of the two genomes of the run, a
\* combined list of solutions of these genomes, the fronts the sorting puts
\* the solutions in (numbered from 0 without gaps) and a population size.
InitSelect ==
    /\ zero_demand_buildings \in SUBSET Positions
    /\ cv_1 \in new_genomes(zero_demand_buildings)
    /\ cv_2 \in new_genomes(zero_demand_buildings)
    /\ cluster_indexes = <<>>
    /\ cluster_calls = 0
    /\ no_call
    /\ individuals_list \in UNION {[1..n -> {cv_1, cv_2}] : n \in 0..MaxPopulation}
    /\ all_supsys_combinations \in
           UNION {[1..n -> {as_str(cv_1), as_str(cv_2)}] : n \in 0..MaxSolutions}
    /\ solution_fronts \in
           {fronts \in [DOMAIN all_supsys_combinations -> 0..(MaxSolutions - 1)] :
               \A s \in DOMAIN fronts :
                   fronts[s] = 0 \/ \E t \in DOMAIN fronts : fronts[t] = fronts[s] - 1}
    /\ population_size \in 0..MaxPopulation
    /\ new_population = <<>>
    /\ selected = <<>>

NextSelect == op = "init" /\ Select

SpecSelect == InitSelect /\ [][NextSelect]_vars

\* One call of a mutation operator on its own, without the reset() of
\* mutate, in any state of a run: the genome as single-position assignments
\* can leave it, the cluster index computed or not yet.
InitMutation ==
    /\ zero_demand_buildings \in SUBSET Positions
    /\ cv_1 \in assigned_genomes(zero_demand_buildings)
    /\ cv_2 = connections_setter(generate_default(zero_demand_buildings), zero_demand_buildings)
    /\ cluster_indexes \in {<<>>} \cup ClusterResults
    /\ cluster_calls = IF cluster_indexes = <<>> THEN 0 ELSE 1
    /\ no_call
    /\ no_selection

NextMutation ==
    \/ op = "init" /\ CallShuffleIndexes
    \/ op = "init" /\ CallClusterSwitch

SpecMutation == InitMutation /\ [][NextMutation]_vars

\* One call of generate after the class variables were initialised.
NextGenerate ==
    \/ op = "init" /\ GenerateRandom
    \/ op = "init" /\ GenerateOther

SpecGenerate == Init /\ [][NextGenerate]_vars

\* One crossover in any of the five modes, called on its own or through
\* mate, in any state of a run.
NextCrossover ==
    \/ op = "init" /\ CallOnePoint
    \/ op = "init" /\ CallTwoPoint
    \/ op = "init" /\ CallUniform
    \/ op = "init" /\ CallClusterSwap
    \/ op = "init" /\ CallClusterAlignment
    \/ op = "init" /\ MateOnePoint
    \/ op = "init" /\ MateTwoPoint
    \/ op = "init" /\ MateUniform
    \/ op = "init" /\ MateClusterSwap
    \/ op = "init" /\ MateClusterAlignment

SpecCrossover == InitAll /\ [][NextCrossover]_vars

----------------------------------------------------------------------------
(* Properties *)

\* Canonical form: no network id k > 0 is held by exactly one position.
Canonical(values) ==
    \A p \in DOMAIN values :
        values[p] # 0 => \E q \in DOMAIN values : q # p /\ values[q] = values[p]

SupportedMutations == {"ShuffleIndexes", "UniformInteger", "ClusterSwitch"}

\* C1: after the construction of a genome and after every reset(), no
\* network id k > 0 is held by exactly one position of the genome.
C1_CanonicalAfterConstructionAndReset ==
    op \in {"init", "construct", "reset"} => Canonical(cv_1)

\* A reset() that rewrote a genome left by single-position assignments.
C1_Witness ==
    /\ op = "reset"
    /\ collapsed = {1}
    /\ \E p \in Positions : cv_1[p] # 0

\* C2: after every successful assignment genome.values = new_values, also on
\* a genome with zero-demand buildings, no network id k > 0 is held by
\* exactly one position of the genome.
C2_CanonicalAfterValuesAssignment ==
    (op = "values" /\ err = "none") => Canonical(cv_1)

\* C3: after mutate with any of the three supported algorithms on a genome in
\* canonical form, the genome is in canonical form and has kept its length.
C3_MutationPreservesInvariants ==
    (op = "mutate" /\ alg \in SupportedMutations)
        => (Canonical(cv_1) /\ Len(cv_1) = NumBuildings)

\* C4: mutate with any of the three supported algorithms applies reset() to
\* the mutated genome and returns normally.
C4_MutateResetsAndReturns ==
    (op = "mutate" /\ alg \in SupportedMutations) => (err = "none" /\ 1 \in resets)

\* C5: mate with any of the five crossover modes on two genomes in canonical
\* form returns normally with reset() applied to both genomes, and both are
\* in canonical form and have kept their length.
C5_CrossoverPreservesInvariants ==
    (op = "mate" /\ alg # "Unsupported")
        => /\ err = "none"
           /\ resets = {1, 2}
           /\ Canonical(cv_1) /\ Canonical(cv_2)
           /\ Len(cv_1) = NumBuildings /\ Len(cv_2) = NumBuildings

\* A cluster-aware crossover after which reset() had to rewrite both genomes.
C5_Witness ==
    /\ op = "mate"
    /\ alg = "ClusterSwap"
    /\ collapsed = {1, 2}

\* C6: every position of a zero-demand building holds 0 in every genome,
\* whatever call was made.
C6_ZeroDemandPin ==
    \A p \in zero_demand_buildings : cv_1[p] = 0 /\ cv_2[p] = 0

\* The largest legal network id assigned without error to a position of a
\* domain where every building has zero demand: 0 is stored.
C6_Witness ==
    /\ op = "setitem"
    /\ arg = MaxNetworks
    /\ err = "none"
    /\ zero_demand_buildings = Positions
    /\ cv_1 = [p \in Positions |-> 0]

\* C7: a single-position assignment of a value outside [0, max_networks]
\* fails with an invalid-value error and changes nothing; of a value inside,
\* 0 and max_networks included, it succeeds and stores the value (0 for a
\* zero-demand building) at one position.
C7_RangeEnforcement ==
    [][op' = "setitem" =>
          IF arg' \in 0..MaxNetworks
          THEN /\ err' = "none"
               /\ \E p \in Positions :
                     cv_1' = [cv_1 EXCEPT ![p] =
                                 IF p \in zero_demand_buildings THEN 0 ELSE arg']
          ELSE /\ err' = "InvalidValue"
               /\ cv_1' = cv_1]_vars

\* The assignment of max_networks + 1 refused.
C7_Witness ==
    /\ op = "setitem"
    /\ arg = MaxNetworks + 1
    /\ err = "InvalidValue"

\* C8: mutate or mate with an unrecognised algorithm fails with an
\* unsupported-algorithm error and leaves both genomes and the cluster index
\* as they were.
C8_UnsupportedLeavesStateUntouched ==
    [][alg' = "Unsupported" =>
          /\ err' = "UnsupportedAlgorithm"
          /\ cv_1' = cv_1
          /\ cv_2' = cv_2
          /\ cluster_indexes' = cluster_indexes]_vars

\* mutate refused for its algorithm while no cluster index was computed yet.
C8_Witness ==
    /\ op = "mutate"
    /\ err = "UnsupportedAlgorithm"
    /\ cluster_indexes = <<>>
    /\ \E p \in Positions : cv_1[p] # 0

\* C9: a values assignment or a slice assignment that fails with an
\* invalid-value error has changed no position of the genome.
C9_NoPartialCommit ==
    [][(op' \in {"values", "setslice"} /\ err' = "InvalidValue") => cv_1' = cv_1]_vars

\* C10: a reset() that directly follows a reset() changes nothing.
C10_ResetIdempotent ==
    Len(reset_run) = 2 => reset_run[2] = FALSE

\* Two reset() calls in a row, the first of which rewrote the genome.
C10_Witness ==
    reset_run = <<TRUE, FALSE>>

\* C11: reset() on a genome with values v leaves values r of the same length
\* with r[i] = 0 where v[i] occurs exactly once in v and r[i] = v[i]
\* elsewhere.
C11_CanonicalizationResult ==
    [][op' = "reset" =>
          /\ Len(cv_1') = Len(cv_1)
          /\ \A i \in Positions :
                cv_1'[i] = IF Cardinality({j \in Positions : cv_1[j] = cv_1[i]}) = 1
                           THEN 0
                           ELSE cv_1[i]]_vars

\* A reset() that rewrote a value occurring once and kept a network of two
\* buildings.
C11_Witness ==
    /\ op = "reset"
    /\ collapsed = {1}
    /\ \E i, j \in Positions : i # j /\ cv_1[i] = 1 /\ cv_1[j] = 1

\* C12: select returns at most population_size genomes, no two of them with
\* the same encoding.
C12_SelectionBoundAndNoDuplicates ==
    op = "select" =>
        /\ Len(new_population) <= population_size
        /\ \A i, j \in DOMAIN new_population :
              i # j => as_str(new_population[i]) # as_str(new_population[j])

\* A genome listed twice in the population, with solutions in two fronts, is
\* returned once although population_size leaves room for two.
C12_Witness ==
    /\ op = "select"
    /\ Len(individuals_list) = 2
    /\ individuals_list[1] = individuals_list[2]
    /\ \E s, t \in DOMAIN all_supsys_combinations :
          /\ all_supsys_combinations[s] = as_str(individuals_list[1])
          /\ all_supsys_combinations[t] = as_str(individuals_list[1])
          /\ solution_fronts[s] # solution_fronts[t]
    /\ population_size = 2
    /\ Len(new_population) = 1

\* The lowest front holding a solution of the genome.
BestFront(values) ==
    CHOOSE f \in 0..(MaxSolutions + 1) :
        /\ \E s \in DOMAIN all_supsys_combinations :
              all_supsys_combinations[s] = as_str(values) /\ solution_fronts[s] = f
        /\ \A s \in DOMAIN all_supsys_combinations :
              all_supsys_combinations[s] = as_str(values) => f <= solution_fronts[s]

\* C13: every genome select returns has a solution, and the genomes come in
\* non-decreasing order of the lowest front holding one of their solutions;
\* with population_size = 1, X only in front 0 and Y only in front 1 the
\* output is [X].
C13_SelectionFrontPriority ==
    op = "select" =>
        /\ \A i \in DOMAIN new_population :
              \E s \in DOMAIN all_supsys_combinations :
                  all_supsys_combinations[s] = as_str(new_population[i])
        /\ \A i, j \in DOMAIN new_population :
              i < j => BestFront(new_population[i]) <= BestFront(new_population[j])
        /\ \A X, Y \in {cv_1, cv_2} :
              ( /\ X # Y
                /\ {individuals_list[i] : i \in DOMAIN individuals_list} = {X, Y}
                /\ population_size = 1
                /\ \E s \in DOMAIN all_supsys_combinations :
                      all_supsys_combinations[s] = as_str(Y)
                /\ \A s \in DOMAIN all_supsys_combinations :
                      /\ all_supsys_combinations[s] = as_str(X) => solution_fronts[s] = 0
                      /\ all_supsys_combinations[s] = as_str(Y) => solution_fronts[s] = 1 )
                  => new_population = <<X>>

\* The population [Y, X] with Y's solution listed first, X's in front 0 and
\* Y's in front 1: both are returned, X first.
C13_Witness ==
    /\ op = "select"
    /\ individuals_list = <<cv_2, cv_1>>
    /\ all_supsys_combinations = <<as_str(cv_2), as_str(cv_1)>>
    /\ solution_fronts = <<1, 0>>
    /\ population_size = 2
    /\ new_population = <<cv_1, cv_2>>
    /\ cv_1 # cv_2

\* C14: within a front, select takes the genome keys in the order in which
\* their solutions are first met in the combined list: the genomes returned
\* are those of the fronts' keys listed in that order.
C14_WithinFrontEncounterOrder ==
    op = "select" =>
        LET first(key) == CHOOSE s \in DOMAIN all_supsys_combinations :
                              /\ all_supsys_combinations[s] = key
                              /\ \A t \in DOMAIN all_supsys_combinations :
                                    all_supsys_combinations[t] = key => s <= t
            encountered ==
                CHOOSE by_front \in connectivity_vectors_by_front(all_supsys_combinations,
                                                                  solution_fronts) :
                    \A f \in DOMAIN by_front :
                        \A i, j \in DOMAIN by_front[f] :
                            i < j => first(by_front[f][i]) < first(by_front[f][j])
        IN  selected = select(individuals_list, encountered, population_size)

\* C15: ClusterSwap leaves the value of every outlier position (negative
\* cluster id) of both genomes as it was.
C15_ClusterSwapLeavesOutliers ==
    (op = "ClusterSwap" /\ err = "none" /\ ~again) =>
        \A p \in Positions :
            cluster_indexes[p] < 0 =>
                cv_1[p] = before[1][p] /\ cv_2[p] = before[2][p]

\* C16 as claimed: after ClusterSwap was applied twice to a pair of genomes
\* with the same selected clusters, on its own or through mate, both genomes
\* are as they were before the first swap (stated for selections of clusters
\* proper, so that the swap of outliers plays no part).
C16_ClusterSwapTwiceRestores ==
    (again /\ \A cluster \in chosen : cluster >= 0)
        => (cv_1 = before[1] /\ cv_2 = before[2])

\* C16 as amended: after ConnectivityVector.ClusterSwap itself (without the
\* reset() mate applies after it) was applied twice with the same selected
\* clusters, both genomes are as they were before the first swap.
C16_ClusterSwapOperatorTwiceRestores ==
    (op = "ClusterSwap" /\ again) => (cv_1 = before[1] /\ cv_2 = before[2])

\* ClusterSwap applied twice on its own, the first swap having changed both
\* genomes.
C16_Witness ==
    /\ op = "ClusterSwap"
    /\ again
    /\ chosen # {}
    /\ \E p \in Positions : cluster_indexes[p] \in chosen /\ cv_1[p] # cv_2[p]

\* C17: over any sequence of mutate and mate calls the clustering
\* collaborator is called at most once, by a cluster-aware call, and the
\* cluster index, once computed, never changes.
C17_ClusterIndexComputedOnce ==
    [][/\ cluster_calls' <= 1
       /\ cluster_calls' # cluster_calls
              => alg' \in {"ClusterSwitch", "ClusterSwap", "ClusterAlignment"}
       /\ cluster_indexes # <<>> => cluster_indexes' = cluster_indexes]_vars

\* Two cluster-aware calls in a row, the second after the cluster index was
\* computed.
C17_Witness ==
    /\ op = "mate"
    /\ again
    /\ cluster_calls = 1
    /\ cluster_indexes # <<>>

\* The most frequent value of a list, the one met first in the list among
\* those equally frequent.
FirstMostFrequent(list) ==
    LET most(i) == \A j \in DOMAIN list : Count(list, list[j]) <= Count(list, list[i])
        first == CHOOSE i \in DOMAIN list :
                     most(i) /\ \A j \in DOMAIN list : most(j) => i <= j
    IN  list[first]

\* C19: for both genomes and every position of a cluster proper, the mode
\* ClusterAlignment used is the most frequent network id among the
\* cluster's positions, the one met first in position order among those
\* equally frequent.
C19_ModeTieBreakPositionOrder ==
    (op = "ClusterAlignment" /\ err = "none") =>
        \A g \in {1, 2} :
            \A p \in Positions :
                cluster_indexes[p] >= 0 =>
                    modes[g][p] = FirstMostFrequent(
                                      cluster_values(before[g], cluster_indexes,
                                                     cluster_indexes[p], 1))

\* C20: ClusterAlignment changes a position only if it is not an outlier and
\* the first genome's value there is the second's mode of the position's
\* cluster and the second's value the first's mode (modes of the genomes as
\* they were before the call), and then exchanges the two values; for
\* clusters {0:[0,1], 1:[2,3]}, A=[1,1,0,0], B=[0,0,1,1] nothing changes.
C20_AlignmentEligibility ==
    (op = "ClusterAlignment" /\ err = "none") =>
        LET A == before[1]
            B == before[2]
            mode(values, p) ==
                FirstMostFrequent(cluster_values(values, cluster_indexes,
                                                 cluster_indexes[p], 1))
            eligible(p) ==
                /\ cluster_indexes[p] >= 0
                /\ A[p] = mode(B, p)
                /\ B[p] = mode(A, p)
        IN  /\ \A p \in Positions :
                  IF eligible(p)
                  THEN \/ cv_1[p] = A[p] /\ cv_2[p] = B[p]
                       \/ cv_1[p] = B[p] /\ cv_2[p] = A[p]
                  ELSE cv_1[p] = A[p] /\ cv_2[p] = B[p]
            /\ ( /\ NumBuildings = 4
                 /\ cluster_indexes = <<0, 0, 1, 1>>
                 /\ A = <<1, 1, 0, 0>>
                 /\ B = <<0, 0, 1, 1>> )
                   => (cv_1 = A /\ cv_2 = B)

\* The genomes of the run, of the population and of the selection.
Genomes ==
    {cv_1, cv_2}
        \cup {individuals_list[i] : i \in DOMAIN individuals_list}
        \cup {new_population[i] : i \in DOMAIN new_population}

C21_ClusterAlignmentAligns ==
    (op = "ClusterAlignment" /\ err = "none") =>
        \A p \in Positions :
            (cv_1[p] # before[1][p] \/ cv_2[p] # before[2][p]) =>
                LET mode_1 == FirstMostFrequent(cluster_values(before[1], cluster_indexes,
                                                               cluster_indexes[p], 1))
                    mode_2 == FirstMostFrequent(cluster_values(before[2], cluster_indexes,
                                                               cluster_indexes[p], 1))
                IN  /\ before[1][p] # mode_1 /\ cv_1[p] = mode_1
                    /\ before[2][p] # mode_2 /\ cv_2[p] = mode_2

\* C22: ClusterSwap is all-or-nothing per cluster: for every cluster that is
\* not an outlier cluster, either both genomes exchanged their values at
\* every position of the cluster or neither changed at any of them, and the
\* positions of clusters that were not selected are unchanged.
C22_ClusterSwapAllOrNothing ==
    (op = "ClusterSwap" /\ err = "none" /\ ~again) =>
        /\ \A cluster \in {c \in clusters_of(cluster_indexes) : c >= 0} :
              LET members == {p \in Positions : cluster_indexes[p] = cluster}
              IN  \/ \A p \in members : cv_1[p] = before[2][p] /\ cv_2[p] = before[1][p]
                  \/ \A p \in members : cv_1[p] = before[1][p] /\ cv_2[p] = before[2][p]
        /\ \A p \in Positions :
              cluster_indexes[p] \notin chosen =>
                  cv_1[p] = before[1][p] /\ cv_2[p] = before[2][p]

\* A ClusterSwap that exchanged a cluster of two buildings where the genomes
\* differed and left a cluster alone where they differed too.
C22_Witness ==
    /\ op = "ClusterSwap" /\ err = "none" /\ ~again
    /\ \E p, q, r \in Positions :
          /\ p # q
          /\ cluster_indexes[p] >= 0 /\ cluster_indexes[q] = cluster_indexes[p]
          /\ cluster_indexes[p] \in chosen
          /\ before[1][p] # before[2][p] /\ before[1][q] # before[2][q]
          /\ cv_1[p] = before[2][p] /\ cv_1[q] = before[2][q]
          /\ cluster_indexes[r] >= 0 /\ cluster_indexes[r] \notin chosen
          /\ before[1][r] # before[2][r] /\ cv_1[r] = before[1][r]

\* C23: ClusterSwitch uses one replacement value per cluster: for every
\* cluster that is not an outlier cluster there is one legal network id k
\* such that every position of the cluster that is not a zero-demand
\* building either keeps the value it had or holds k.
C23_ClusterSwitchOneValuePerCluster ==
    (op = "ClusterSwitch" /\ err = "none") =>
        \A cluster \in {c \in clusters_of(cluster_indexes) : c >= 0} :
            \E k \in 0..MaxNetworks :
                \A p \in Positions :
                    (cluster_indexes[p] = cluster /\ p \notin zero_demand_buildings)
                        => (cv_1[p] = before[1][p] \/ cv_1[p] = k)

\* A ClusterSwitch that took two buildings of one cluster, which held
\* different values, to the same new value.
C23_Witness ==
    /\ op = "ClusterSwitch" /\ err = "none"
    /\ \E p, q \in Positions :
          /\ p # q
          /\ cluster_indexes[p] >= 0 /\ cluster_indexes[q] = cluster_indexes[p]
          /\ before[1][p] # before[1][q]
          /\ cv_1[p] = cv_1[q]
          /\ cv_1[p] # before[1][p] /\ cv_1[q] # before[1][q]

\* C24: ClusterSwitch treats each outlier once: every outlier position is
\* considered for a redraw exactly once in a call, however many distinct
\* negative ids the cluster index holds, and is assigned a drawn value at
\* most once.
C24_ClusterSwitchOutliersOnce ==
    (op = "ClusterSwitch" /\ err = "none") =>
        \A p \in Positions :
            cluster_indexes[p] < 0 => (redraws[p][1] = 1 /\ redraws[p][2] <= 1)

\* C25: before the final reset(), the genome ShuffleIndexes produces is a
\* permutation of the genome it was given: every network id is held by as
\* many positions as before, also in genomes with zero-demand buildings.
C25_ShuffleIsPermutation ==
    (op = "ShuffleIndexes" /\ err = "none") =>
        \A k \in 0..MaxNetworks : Count(cv_1, k) = Count(before[1], k)

\* C25 as the code has it: without zero-demand buildings the genome
\* ShuffleIndexes produces before the final reset() is a permutation of the
\* genome it was given; with zero-demand buildings their positions keep 0
\* and no network id k > 0 is held by more positions than before.
C25_ShuffleIsPermutationUnlessPinned ==
    (op = "ShuffleIndexes" /\ err = "none") =>
        /\ zero_demand_buildings = {} =>
              \A k \in 0..MaxNetworks : Count(cv_1, k) = Count(before[1], k)
        /\ \A k \in 1..MaxNetworks : Count(cv_1, k) <= Count(before[1], k)
        /\ \A p \in zero_demand_buildings : cv_1[p] = 0

\* A shuffle without zero-demand buildings that exchanged two different
\* values.
C25_Witness ==
    /\ op = "ShuffleIndexes" /\ err = "none"
    /\ zero_demand_buildings = {}
    /\ \E p, q \in Positions :
          /\ p # q /\ before[1][p] # before[1][q]
          /\ cv_1[p] = before[1][q] /\ cv_1[q] = before[1][p]

\* C26: when several genomes of the population handed to select have the
\* same canonical encoding, select returns at most one of them, and the
\* object it returns is the one that comes last in the population.
C26_DuplicatesMergedLastWins ==
    op = "select" =>
        /\ \A i, j \in DOMAIN selected :
              i # j => as_str(individuals_list[selected[i]])
                         # as_str(individuals_list[selected[j]])
        /\ \A i \in DOMAIN selected :
              \A j \in DOMAIN individuals_list :
                  as_str(individuals_list[j]) = as_str(individuals_list[selected[i]])
                      => j <= selected[i]

\* A selection from a population holding two genomes of one encoding, the
\* later of which was returned.
C26_Witness ==
    /\ op = "select"
    /\ \E i \in DOMAIN selected :
          \E j \in DOMAIN individuals_list :
              /\ j < selected[i]
              /\ as_str(individuals_list[j]) = as_str(individuals_list[selected[i]])

C28_GenerateContract ==
    op = "generate" =>
        /\ Len(generated) = NumBuildings
        /\ \A p \in 1..Len(generated) :
              /\ generated[p].building = p
              /\ generated[p].network_connection \in 0..MaxNetworks
              /\ p \in zero_demand_buildings => generated[p].network_connection = 0
              /\ alg # "random" => generated[p].network_connection = 0

\* A random generation in a domain with a zero-demand building that gave
\* another building the largest legal id.
C28_Witness ==
    /\ op = "generate" /\ alg = "random"
    /\ zero_demand_buildings # {}
    /\ \E p \in Positions : generated[p].network_connection = MaxNetworks

CrossoverOperators == {"OnePoint", "TwoPoint", "Uniform", "ClusterSwap", "ClusterAlignment"}

\* C29: crossover only exchanges values position-wise. In each of the five
\* modes, before the final reset() every position holds in the two genomes
\* the same pair of values as before the call, kept or exchanged; so after
\* mate every value of either genome at a position is the first genome's
\* old value there, the second genome's old value there, or 0.
C29_CrossoverPositionWise ==
    /\ (op \in CrossoverOperators /\ err = "none") =>
          \A p \in Positions :
              \/ cv_1[p] = before[1][p] /\ cv_2[p] = before[2][p]
              \/ cv_1[p] = before[2][p] /\ cv_2[p] = before[1][p]
    /\ (op = "mate" /\ alg \in CrossoverOperators) =>
          \A p \in Positions :
              /\ cv_1[p] \in {before[1][p], before[2][p], 0}
              /\ cv_2[p] \in {before[1][p], before[2][p], 0}

\* A one-point crossover that exchanged the tails of two genomes differing
\* there and kept their heads, which differed too.
C29_Witness ==
    /\ op = "OnePoint" /\ err = "none"
    /\ before[1][1] # before[2][1]
    /\ cv_1[1] = before[1][1] /\ cv_2[1] = before[2][1]
    /\ before[1][NumBuildings] # before[2][NumBuildings]
    /\ cv_1[NumBuildings] = before[2][NumBuildings]
    /\ cv_2[NumBuildings] = before[1][NumBuildings]

\* The encodings of the population that at least one solution refers to.
ReferencedEncodings ==
    {as_str(individuals_list[i]) : i \in DOMAIN individuals_list}
        \cap {all_supsys_combinations[s] : s \in DOMAIN all_supsys_combinations}

\* C30: select returns exactly min(population_size, D) genomes, D being the
\* number of distinct encodings of the population that at least one solution
\* refers to; every genome returned is an object of the population, and a
\* genome no solution refers to is never returned, even when fewer than
\* population_size genomes are returned.
C30_SelectionSizeExact ==
    op = "select" =>
        LET D == Cardinality(ReferencedEncodings)
        IN  /\ Len(new_population) = IF population_size <= D THEN population_size ELSE D
            /\ Len(selected) = Len(new_population)
            /\ \A i \in DOMAIN selected :
                  /\ selected[i] \in DOMAIN individuals_list
                  /\ new_population[i] = individuals_list[selected[i]]
                  /\ as_str(new_population[i]) \in ReferencedEncodings

\* A selection that returned one genome where more were asked for, from a
\* population with a second genome no solution refers to.
C30_Witness ==
    /\ op = "select"
    /\ Len(new_population) = 1
    /\ population_size > 1
    /\ \E i \in DOMAIN individuals_list :
          as_str(individuals_list[i]) \notin ReferencedEncodings

====
